---- MODULE Spec2Model ----
(***************************************************************************)
(* Crazy Eights (human against computer): the React component App, its    *)
(* game state, its click handlers, the deferred computer move (useEffect  *)
(* + setTimeout) and the deferred wild-suit declaration (setTimeout).     *)
(***************************************************************************)
EXTENDS Integers, Sequences, FiniteSets, TLC

\* ------------------------------------------------------------------ cards

SUITS == <<"HEARTS", "DIAMONDS", "CLUBS", "SPADES">>

RANKS == <<"A", "2", "3", "4", "5", "6", "7", "8", "9", "10", "J", "Q", "K">>

EIGHT == "8"

null == "null"

SuitSet == {SUITS[i] : i \in 1..Len(SUITS)}

RankSet == {RANKS[i] : i \in 1..Len(RANKS)}

\* A card; its id `${rank}-${suit}` is a function of the two fields.
Card(suit, rank) == [suit |-> suit, rank |-> rank]

id(card) == <<card.rank, card.suit>>

Cards == {Card(s, r) : s \in SuitSet, r \in RankSet}

\* ------------------------------------------------------------ sequences

\* Array.prototype.filter with the predicate "id differs from card's id"
RECURSIVE WithoutId(_, _)
WithoutId(hand, card) ==
  IF hand = <<>> THEN <<>>
  ELSE IF id(Head(hand)) # id(card)
       THEN <<Head(hand)>> \o WithoutId(Tail(hand), card)
       ELSE WithoutId(Tail(hand), card)

\* Array.prototype.splice(k, 1) applied to s (0-based k): the remaining array
RemoveAt(s, k) == SubSeq(s, 1, k) \o SubSeq(s, k + 2, Len(s))

\* ----------------------------------------------------------- card catalog

\* createDeck before the shuffle: suits outermost, ranks innermost
OrderedDeck ==
  [k \in 1..(Len(SUITS) * Len(RANKS)) |->
     Card(SUITS[((k - 1) \div Len(RANKS)) + 1], RANKS[((k - 1) % Len(RANKS)) + 1])]

\* the exchange that copies newDeck[j] to newDeck[i] and loses newDeck[i]
Swap_Overwrite(d, i, j) == [d EXCEPT ![i + 1] = d[j + 1]]

\* [newDeck[i], newDeck[j]] = [newDeck[j], newDeck[i]]   (0-based i, j)
Swap(d, i, j) == [d EXCEPT ![i + 1] = d[j + 1], ![j + 1] = d[i + 1]]

\* The loop of shuffle from index i down to 1; rnd[i] is the value of
\* Math.floor(Math.random() * (i + 1)) drawn at index i.
RECURSIVE ShuffleFrom(_, _, _)
ShuffleFrom(d, i, rnd) ==
  IF i > 0 THEN ShuffleFrom(Swap(d, i, rnd[i]), i - 1, rnd) ELSE d

shuffle(d, rnd) == ShuffleFrom(d, Len(d) - 1, rnd)

createDeck(rnd) == shuffle(OrderedDeck, rnd)

\* ------------------------------------------------------------- game state

PLAYER == "PLAYER"

AI == "AI"

Difficulty == {"EASY", "MEDIUM", "HARD"}

\* The MouseEvent React passes to a handler given as onClick={handler}
ClickEvent == "MouseEvent"

HandSize == 8

AiDelay == 1500

WildDelay == 1000

TickPeriod == 1000

NoCard == [suit |-> null, rank |-> null]

\* useState<GameState>({...}): the state before any game
InitialGameState ==
  [deck |-> <<>>, playerHand |-> <<>>, aiHand |-> <<>>, discardPile |-> <<>>,
   currentTurn |-> PLAYER, status |-> "START", winner |-> null,
   activeSuit |-> null, difficulty |-> "MEDIUM"]

VARIABLES
  gameState,           \* useState<GameState>
  selectedDifficulty,  \* useState<Difficulty>
  aiThinkingTime,      \* useState<number>
  timer,               \* the pending computer-move timeout of the AI-turn effect:
                       \* <<>> or <<gs>>, gs the gameState its closure captured
  wildTimeout,         \* the pending wild-suit timeout of playCard: <<>> or <<bestSuit>>
  lastOp,              \* history: the handler or callback that last called setGameState
  draws                \* history: the human's draws from the deck in this game

vars ==
  <<gameState, selectedDifficulty, aiThinkingTime, timer, wildTimeout, lastOp, draws>>

Op(name, isPlayer, card) == [op |-> name, isPlayer |-> isPlayer, card |-> card]

\* drawnCard of drawCard: newDeck.pop(), no card when the deck is empty
DrawnCard(gs) == IF Len(gs.deck) = 0 THEN NoCard ELSE gs.deck[Len(gs.deck)]

\* --------------------------------------------------------------- initGame

\* initGame without the loop that skips EIGHTs: the first card is flipped
FirstDiscardIndex_NoSkip(fullDeck, k) == k

\* while (fullDeck[firstDiscardIndex].rank === Rank.EIGHT) firstDiscardIndex++
RECURSIVE FirstDiscardIndex(_, _)
FirstDiscardIndex(fullDeck, k) ==
  IF fullDeck[k + 1].rank = EIGHT THEN FirstDiscardIndex(fullDeck, k + 1) ELSE k

\* The state initGame passes to setGameState; rnd is the run of Math.random
initGame(difficulty, rnd) ==
  LET shuffled == createDeck(rnd)
      playerHand == SubSeq(shuffled, 1, HandSize)
      aiHand == SubSeq(shuffled, HandSize + 1, 2 * HandSize)
      fullDeck == SubSeq(shuffled, 2 * HandSize + 1, Len(shuffled))
      firstDiscardIndex == FirstDiscardIndex(fullDeck, 0)
      discardPile == <<fullDeck[firstDiscardIndex + 1]>>
  IN [deck |-> RemoveAt(fullDeck, firstDiscardIndex),
      playerHand |-> playerHand,
      aiHand |-> aiHand,
      discardPile |-> discardPile,
      currentTurn |-> PLAYER,
      status |-> "PLAYING",
      winner |-> null,
      activeSuit |-> discardPile[1].suit,
      difficulty |-> difficulty]

\* -------------------------------------------------------------- handlers

surrender(prev) == [prev EXCEPT !.status = "GAME_OVER", !.winner = AI]

\* checkPlayable without the rank match
checkPlayable_SuitOnly(gs, card) ==
  IF card.rank = EIGHT THEN TRUE ELSE card.suit = gs.activeSuit

\* checkPlayable of the render whose gameState is gs
checkPlayable(gs, card) ==
  LET topCard == gs.discardPile[Len(gs.discardPile)]
  IN IF card.rank = EIGHT THEN TRUE
     ELSE card.suit = gs.activeSuit \/ card.rank = topCard.rank

Other(isPlayer) == IF isPlayer THEN AI ELSE PLAYER

NewHand(gs, card, isPlayer) ==
  IF isPlayer THEN WithoutId(gs.playerHand, card) ELSE WithoutId(gs.aiHand, card)

\* suitCounts after hand.forEach(c => suitCounts[c.suit]++)
SuitCounts(hand) ==
  [s \in SuitSet |-> Cardinality({i \in 1..Len(hand) : hand[i].suit = s})]

\* the bestSuit loop with >= for >: of equal counts the last suit wins
BestSuitFrom_LastWins(suitCounts, k, bestSuit, maxCount) ==
  LET best == CHOOSE i \in 1..Len(SUITS) :
                /\ \A j \in 1..Len(SUITS) : suitCounts[SUITS[j]] <= suitCounts[SUITS[i]]
                /\ \A j \in (i + 1)..Len(SUITS) : suitCounts[SUITS[j]] < suitCounts[SUITS[i]]
  IN SUITS[best]

\* SUITS.forEach(s => { if (suitCounts[s] > maxCount) {...} }) from suit k on
RECURSIVE BestSuitFrom(_, _, _, _)
BestSuitFrom(suitCounts, k, bestSuit, maxCount) ==
  IF k > Len(SUITS) THEN bestSuit
  ELSE IF suitCounts[SUITS[k]] > maxCount
       THEN BestSuitFrom(suitCounts, k + 1, SUITS[k], suitCounts[SUITS[k]])
       ELSE BestSuitFrom(suitCounts, k + 1, bestSuit, maxCount)

BestSuit(newHand) == BestSuitFrom(SuitCounts(newHand), 1, "HEARTS", -1)

\* playCard whose EIGHT branch passes the turn at once, for the human too
playCard_EightPassesTurn(gs, prev, card, isPlayer) ==
  LET newHand == NewHand(gs, card, isPlayer)
      newDiscardPile == Append(gs.discardPile, card)
  IN IF Len(newHand) = 0
     THEN [prev EXCEPT !.playerHand = IF isPlayer THEN <<>> ELSE @,
                       !.aiHand = IF isPlayer THEN @ ELSE <<>>,
                       !.discardPile = newDiscardPile,
                       !.status = "GAME_OVER",
                       !.winner = IF isPlayer THEN PLAYER ELSE AI]
     ELSE IF card.rank = EIGHT
     THEN [prev EXCEPT !.playerHand = IF isPlayer THEN newHand ELSE @,
                       !.aiHand = IF isPlayer THEN @ ELSE newHand,
                       !.discardPile = newDiscardPile,
                       !.status = IF isPlayer THEN "WILD_SELECTION" ELSE "PLAYING",
                       !.activeSuit = IF isPlayer THEN @ ELSE null,
                       !.currentTurn = Other(isPlayer)]
     ELSE [prev EXCEPT !.playerHand = IF isPlayer THEN newHand ELSE @,
                       !.aiHand = IF isPlayer THEN @ ELSE newHand,
                       !.discardPile = newDiscardPile,
                       !.activeSuit = card.suit,
                       !.currentTurn = Other(isPlayer)]

\* playCard with the EIGHT test ahead of the empty-hand test
playCard_EightFirst(gs, prev, card, isPlayer) ==
  LET newHand == NewHand(gs, card, isPlayer)
      newDiscardPile == Append(gs.discardPile, card)
  IN IF card.rank = EIGHT
     THEN [prev EXCEPT !.playerHand = IF isPlayer THEN newHand ELSE @,
                       !.aiHand = IF isPlayer THEN @ ELSE newHand,
                       !.discardPile = newDiscardPile,
                       !.status = IF isPlayer THEN "WILD_SELECTION" ELSE "PLAYING",
                       !.activeSuit = IF isPlayer THEN @ ELSE null]
     ELSE IF Len(newHand) = 0
     THEN [prev EXCEPT !.playerHand = IF isPlayer THEN <<>> ELSE @,
                       !.aiHand = IF isPlayer THEN @ ELSE <<>>,
                       !.discardPile = newDiscardPile,
                       !.status = "GAME_OVER",
                       !.winner = IF isPlayer THEN PLAYER ELSE AI]
     ELSE [prev EXCEPT !.playerHand = IF isPlayer THEN newHand ELSE @,
                       !.aiHand = IF isPlayer THEN @ ELSE newHand,
                       !.discardPile = newDiscardPile,
                       !.activeSuit = card.suit,
                       !.currentTurn = Other(isPlayer)]

\* playCard whose ordinary branch keeps the active suit of the state
playCard_KeepsSuit(gs, prev, card, isPlayer) ==
  LET newHand == NewHand(gs, card, isPlayer)
      newDiscardPile == Append(gs.discardPile, card)
  IN IF Len(newHand) = 0
     THEN [prev EXCEPT !.playerHand = IF isPlayer THEN <<>> ELSE @,
                       !.aiHand = IF isPlayer THEN @ ELSE <<>>,
                       !.discardPile = newDiscardPile,
                       !.status = "GAME_OVER",
                       !.winner = IF isPlayer THEN PLAYER ELSE AI]
     ELSE IF card.rank = EIGHT
     THEN [prev EXCEPT !.playerHand = IF isPlayer THEN newHand ELSE @,
                       !.aiHand = IF isPlayer THEN @ ELSE newHand,
                       !.discardPile = newDiscardPile,
                       !.status = IF isPlayer THEN "WILD_SELECTION" ELSE "PLAYING",
                       !.activeSuit = IF isPlayer THEN @ ELSE null]
     ELSE [prev EXCEPT !.playerHand = IF isPlayer THEN newHand ELSE @,
                       !.aiHand = IF isPlayer THEN @ ELSE newHand,
                       !.discardPile = newDiscardPile,
                       !.currentTurn = Other(isPlayer)]

\* playCard of the render whose gameState is gs, applied to the state prev
\* that setGameState hands to the updater
playCard(gs, prev, card, isPlayer) ==
  LET newHand == NewHand(gs, card, isPlayer)
      newDiscardPile == Append(gs.discardPile, card)
  IN IF Len(newHand) = 0
     THEN [prev EXCEPT !.playerHand = IF isPlayer THEN <<>> ELSE @,
                       !.aiHand = IF isPlayer THEN @ ELSE <<>>,
                       !.discardPile = newDiscardPile,
                       !.status = "GAME_OVER",
                       !.winner = IF isPlayer THEN PLAYER ELSE AI]
     ELSE IF card.rank = EIGHT
     THEN [prev EXCEPT !.playerHand = IF isPlayer THEN newHand ELSE @,
                       !.aiHand = IF isPlayer THEN @ ELSE newHand,
                       !.discardPile = newDiscardPile,
                       !.status = IF isPlayer THEN "WILD_SELECTION" ELSE "PLAYING",
                       !.activeSuit = IF isPlayer THEN @ ELSE null]
     ELSE [prev EXCEPT !.playerHand = IF isPlayer THEN newHand ELSE @,
                       !.aiHand = IF isPlayer THEN @ ELSE newHand,
                       !.discardPile = newDiscardPile,
                       !.activeSuit = card.suit,
                       !.currentTurn = Other(isPlayer)]

\* The timeout playCard leaves behind: set only by the computer's EIGHT that
\* does not empty its hand
playCardTimeout(gs, card, isPlayer, pending) ==
  LET newHand == NewHand(gs, card, isPlayer)
  IN IF Len(newHand) # 0 /\ card.rank = EIGHT /\ ~isPlayer
     THEN <<BestSuit(newHand)>>
     ELSE pending

\* The callback of that timeout
wildCallback(prev, bestSuit) ==
  [prev EXCEPT !.activeSuit = bestSuit, !.currentTurn = PLAYER]

\* drawCard that does nothing at all when the deck is empty
drawCard_EmptyKeepsTurn(gs, prev, isPlayer) ==
  IF Len(gs.deck) = 0
  THEN prev
  ELSE LET newDeck == SubSeq(gs.deck, 1, Len(gs.deck) - 1)
           drawnCard == gs.deck[Len(gs.deck)]
       IN IF isPlayer
          THEN [prev EXCEPT !.deck = newDeck,
                            !.playerHand = Append(@, drawnCard),
                            !.currentTurn = IF checkPlayable(gs, drawnCard)
                                            THEN PLAYER ELSE AI]
          ELSE [prev EXCEPT !.deck = newDeck,
                            !.aiHand = Append(@, drawnCard),
                            !.currentTurn = IF checkPlayable(gs, drawnCard)
                                            THEN AI ELSE PLAYER]

\* drawCard that passes the turn whatever card was drawn
drawCard_AlwaysPasses(gs, prev, isPlayer) ==
  IF Len(gs.deck) = 0
  THEN [prev EXCEPT !.currentTurn = Other(isPlayer)]
  ELSE LET newDeck == SubSeq(gs.deck, 1, Len(gs.deck) - 1)
           drawnCard == gs.deck[Len(gs.deck)]
       IN IF isPlayer
          THEN [prev EXCEPT !.deck = newDeck,
                            !.playerHand = Append(@, drawnCard),
                            !.currentTurn = AI]
          ELSE [prev EXCEPT !.deck = newDeck,
                            !.aiHand = Append(@, drawnCard),
                            !.currentTurn = PLAYER]

\* drawCard that reads the top card of the deck without popping it
drawCard_NoPop(gs, prev, isPlayer) ==
  IF Len(gs.deck) = 0
  THEN [prev EXCEPT !.currentTurn = Other(isPlayer)]
  ELSE LET drawnCard == gs.deck[Len(gs.deck)]
       IN IF isPlayer
          THEN [prev EXCEPT !.playerHand = Append(@, drawnCard),
                            !.currentTurn = IF checkPlayable(gs, drawnCard)
                                            THEN PLAYER ELSE AI]
          ELSE [prev EXCEPT !.aiHand = Append(@, drawnCard),
                            !.currentTurn = IF checkPlayable(gs, drawnCard)
                                            THEN AI ELSE PLAYER]

drawCard(gs, prev, isPlayer) ==
  IF Len(gs.deck) = 0
  THEN [prev EXCEPT !.currentTurn = Other(isPlayer)]
  ELSE LET newDeck == SubSeq(gs.deck, 1, Len(gs.deck) - 1)
           drawnCard == gs.deck[Len(gs.deck)]
       IN IF isPlayer
          THEN [prev EXCEPT !.deck = newDeck,
                            !.playerHand = Append(@, drawnCard),
                            !.currentTurn = IF checkPlayable(gs, drawnCard)
                                            THEN PLAYER ELSE AI]
          ELSE [prev EXCEPT !.deck = newDeck,
                            !.aiHand = Append(@, drawnCard),
                            !.currentTurn = IF checkPlayable(gs, drawnCard)
                                            THEN AI ELSE PLAYER]

\* selectWildSuit that leaves the turn where it is
selectWildSuit_KeepsTurn(prev, suit) ==
  [prev EXCEPT !.activeSuit = suit, !.status = "PLAYING"]

selectWildSuit(prev, suit) ==
  [prev EXCEPT !.activeSuit = suit, !.status = "PLAYING", !.currentTurn = AI]

canSurrender ==
  /\ gameState.status = "PLAYING"
  /\ \/ aiThinkingTime >= 1
     \/ Len(gameState.playerHand) - Len(gameState.aiHand) > 2

\* -------------------------------------------------------- opponent policy

\* the computer's hand without the checkPlayable filter
PlayableCards_All(gs) == gs.aiHand

\* gameState.aiHand.filter(checkPlayable)
PlayableCards(gs) == LET Test(card) == checkPlayable(gs, card) IN SelectSeq(gs.aiHand, Test)

NonEights(cards) == LET Test(card) == card.rank # EIGHT IN SelectSeq(cards, Test)

\* the reduction with >= for >: of equal counts the last card wins
Reduce_LastWins(suitCounts, prev, cards) ==
  LET all == <<prev>> \o cards
      last == CHOOSE i \in 1..Len(all) :
                /\ \A j \in 1..Len(all) :
                     suitCounts[all[j].suit] <= suitCounts[all[i].suit]
                /\ \A j \in (i + 1)..Len(all) :
                     suitCounts[all[j].suit] < suitCounts[all[i].suit]
  IN all[last]

\* nonEights.reduce((prev, curr) => suitCounts[curr.suit] > suitCounts[prev.suit] ? curr : prev)
RECURSIVE Reduce(_, _, _)
Reduce(suitCounts, prev, cards) ==
  IF cards = <<>> THEN prev
  ELSE Reduce(suitCounts,
              IF suitCounts[Head(cards).suit] > suitCounts[prev.suit]
              THEN Head(cards) ELSE prev,
              Tail(cards))

\* a computer that plays the first card of its hand
CardToPlay_FirstInHand(gs, pick) == gs.aiHand[1]

\* a computer whose MEDIUM branch takes the first playable card, EIGHT or not
CardToPlay_MediumFirstPlayable(gs, pick) ==
  LET playableCards == PlayableCards(gs)
      nonEights == NonEights(playableCards)
  IN IF gs.difficulty = "EASY" THEN playableCards[pick + 1]
     ELSE IF gs.difficulty = "MEDIUM" THEN playableCards[1]
     ELSE IF nonEights # <<>>
          THEN Reduce(SuitCounts(gs.aiHand), nonEights[1], Tail(nonEights))
          ELSE playableCards[1]

\* cardToPlay of the timer callback; pick is Math.floor(Math.random() * playableCards.length)
CardToPlay(gs, pick) ==
  LET playableCards == PlayableCards(gs)
      nonEights == NonEights(playableCards)
  IN IF gs.difficulty = "EASY" THEN playableCards[pick + 1]
     ELSE IF gs.difficulty = "MEDIUM"
     THEN IF nonEights # <<>> THEN nonEights[1] ELSE playableCards[1]
     ELSE IF nonEights # <<>>
          THEN Reduce(SuitCounts(gs.aiHand), nonEights[1], Tail(nonEights))
          ELSE playableCards[1]

\* ---------------------------------------------------- the AI-turn effect

\* a dependency array that holds currentTurn alone
DepsChanged_TurnOnly(old, new) == old.currentTurn # new.currentTurn

\* the dependency array [currentTurn, status, difficulty]
DepsChanged(old, new) ==
  \/ old.currentTurn # new.currentTurn
  \/ old.status # new.status
  \/ old.difficulty # new.difficulty

AiTurn(gs) == gs.currentTurn = AI /\ gs.status = "PLAYING"

\* The commit of the state new: when a dependency changed, the effect's cleanup
\* clears the pending timer and interval and the effect runs again; otherwise
\* the timer is as the handler left it (pending) and so is the counter.
Commit(new, pending, thinking) ==
  /\ gameState' = new
  /\ IF DepsChanged(gameState, new)
     THEN /\ timer' = IF AiTurn(new) THEN <<new>> ELSE <<>>
          /\ aiThinkingTime' = 0
     ELSE /\ timer' = pending
          /\ aiThinkingTime' = thinking

\* ----------------------------------------------------------------- bounds

\* runs of Math.random the shuffles are given
NumRuns == 2

\* draws of the human from a non-empty deck, per game
MaxDraws == 1

\* the human clicks one of the first MaxChoice playable cards of the hand
MaxChoice == 1

\* values Math.random takes when the computer picks a card: k / RandomLevels
RandomLevels == 2

\* For each run, the values Math.floor(Math.random() * (i + 1)), i = 1 .. 51
RandomRuns ==
  << <<1, 1, 0, 0, 2, 3, 0, 0, 1, 3, 4, 5, 6, 9, 11, 8, 2, 7, 13, 14, 16,
       17, 18, 19, 20, 21, 22, 23, 24, 26, 27, 29, 30, 31, 32, 34, 35, 37,
       38, 39, 41, 42, 40, 43, 42, 40, 44, 43, 42, 40, 12>>,
     <<0, 2, 1, 0, 4, 2, 1, 7, 0, 1, 7, 12, 11, 0, 1, 7, 12, 0, 1, 2, 3, 5,
       6, 8, 9, 10, 11, 12, 26, 27, 28, 29, 30, 31, 33, 35, 36, 37, 39, 40,
       41, 42, 43, 44, 45, 38, 38, 38, 38, 38, 38>> >>

RandomRun(n) == RandomRuns[((n - 1) % Len(RandomRuns)) + 1]

\* ---------------------------------------------------------------- actions

Init ==
  /\ gameState = InitialGameState
  /\ selectedDifficulty = "MEDIUM"
  /\ aiThinkingTime = 0
  /\ timer = <<>>
  /\ wildTimeout = <<>>
  /\ lastOp = Op("mount", FALSE, NoCard)
  /\ draws = 0

\* start screen: onClick={() => setSelectedDifficulty(d)}
SelectDifficulty ==
  /\ gameState.status = "START"
  /\ \E d \in Difficulty : selectedDifficulty' = d
  /\ lastOp' = Op("setSelectedDifficulty", TRUE, NoCard)
  /\ UNCHANGED <<gameState, aiThinkingTime, timer, wildTimeout, draws>>

\* start screen: onClick={() => initGame(selectedDifficulty)}
StartGame ==
  /\ gameState.status = "START"
  /\ \E n \in 1..NumRuns : Commit(initGame(selectedDifficulty, RandomRun(n)), timer, 0)
  /\ lastOp' = Op("startGame", TRUE, NoCard)
  /\ draws' = 0
  /\ UNCHANGED <<selectedDifficulty, wildTimeout>>

\* header: onClick={initGame}, which passes the click event as difficulty
Restart ==
  /\ gameState.status # "START"
  /\ \E n \in 1..NumRuns : Commit(initGame(ClickEvent, RandomRun(n)), timer, 0)
  /\ lastOp' = Op("restart", TRUE, NoCard)
  /\ draws' = 0
  /\ UNCHANGED <<selectedDifficulty, wildTimeout>>

\* game-over dialog: onClick={() => initGame(gameState.difficulty)}
PlayAgain ==
  /\ gameState.status = "GAME_OVER"
  /\ \E n \in 1..NumRuns : Commit(initGame(gameState.difficulty, RandomRun(n)), timer, 0)
  /\ lastOp' = Op("playAgain", TRUE, NoCard)
  /\ draws' = 0
  /\ UNCHANGED <<selectedDifficulty, wildTimeout>>

\* game-over dialog: onClick={() => setGameState(prev => ({ ...prev, status: 'START' }))}
ReturnToMenu ==
  /\ gameState.status = "GAME_OVER"
  /\ Commit([gameState EXCEPT !.status = "START"], timer, aiThinkingTime)
  /\ lastOp' = Op("returnToMenu", TRUE, NoCard)
  /\ UNCHANGED <<selectedDifficulty, wildTimeout, draws>>

\* header: {canSurrender && <button onClick={surrender}>}
Surrender ==
  /\ gameState.status # "START"
  /\ canSurrender
  /\ Commit(surrender(gameState), timer, aiThinkingTime)
  /\ lastOp' = Op("surrender", TRUE, NoCard)
  /\ UNCHANGED <<selectedDifficulty, wildTimeout, draws>>

\* player hand: a card is clickable when its isPlayable prop holds
ClickCard ==
  /\ gameState.status = "PLAYING"
  /\ gameState.currentTurn = PLAYER
  /\ \E i \in 1..Len(gameState.playerHand) :
       LET card == gameState.playerHand[i] IN
       /\ checkPlayable(gameState, card)
       /\ Cardinality({j \in 1..(i - 1) :
                         checkPlayable(gameState, gameState.playerHand[j])}) < MaxChoice
       /\ Commit(playCard(gameState, gameState, card, TRUE), timer, aiThinkingTime)
       /\ wildTimeout' = playCardTimeout(gameState, card, TRUE, wildTimeout)
       /\ lastOp' = Op("playCard", TRUE, card)
  /\ UNCHANGED <<selectedDifficulty, draws>>

\* deck: onClick={() => gameState.currentTurn === 'PLAYER' && drawCard(true)}
ClickDeck ==
  /\ gameState.status # "START"
  /\ gameState.currentTurn = PLAYER
  /\ Len(gameState.deck) = 0 \/ draws < MaxDraws
  /\ Commit(drawCard(gameState, gameState, TRUE), timer, aiThinkingTime)
  /\ draws' = IF Len(gameState.deck) = 0 THEN draws ELSE draws + 1
  /\ lastOp' = Op("drawCard", TRUE, DrawnCard(gameState))
  /\ UNCHANGED <<selectedDifficulty, wildTimeout>>

\* wild selection dialog: onClick={() => selectWildSuit(suit)}
ClickSuit ==
  /\ gameState.status = "WILD_SELECTION"
  /\ \E suit \in SuitSet :
       Commit(selectWildSuit(gameState, suit), timer, aiThinkingTime)
  /\ lastOp' = Op("selectWildSuit", TRUE, NoCard)
  /\ UNCHANGED <<selectedDifficulty, wildTimeout, draws>>

\* A wild timeout still pending was set before the effect's interval and timer
\* were, and its delay is no longer than theirs: it is due first.
WildDueFirst == wildTimeout # <<>> /\ WildDelay <= TickPeriod /\ WildDelay <= AiDelay

\* setInterval(() => setAiThinkingTime(prev => prev + 1), 1000): the interval
\* lives as long as the timer and ticks while the timer is not yet due
Tick ==
  /\ timer # <<>>
  /\ ~WildDueFirst
  /\ (aiThinkingTime + 1) * TickPeriod < AiDelay
  /\ aiThinkingTime' = aiThinkingTime + 1
  /\ UNCHANGED <<gameState, selectedDifficulty, timer, wildTimeout, lastOp, draws>>

\* The callback of setTimeout(..., 1500) of the effect, with the gameState its
\* closure captured; it is due after the interval's ticks
TimerFires ==
  /\ timer # <<>>
  /\ ~WildDueFirst
  /\ (aiThinkingTime + 1) * TickPeriod >= AiDelay
  /\ LET gs == timer[1]
         playableCards == PlayableCards(gs)
     IN IF Len(playableCards) > 0
        THEN \E k \in 0..(RandomLevels - 1) :
               LET pick == (k * Len(playableCards)) \div RandomLevels
                   cardToPlay == CardToPlay(gs, pick)
               IN
               /\ Commit(playCard(gs, gameState, cardToPlay, FALSE), <<>>, aiThinkingTime)
               /\ wildTimeout' = playCardTimeout(gs, cardToPlay, FALSE, wildTimeout)
               /\ lastOp' = Op("playCard", FALSE, cardToPlay)
        ELSE /\ Commit(drawCard(gs, gameState, FALSE), <<>>, aiThinkingTime)
             /\ wildTimeout' = wildTimeout
             /\ lastOp' = Op("drawCard", FALSE, DrawnCard(gs))
  /\ UNCHANGED <<selectedDifficulty, draws>>

\* The callback of setTimeout(..., 1000) of playCard; nothing ever clears it
WildTimeoutFires ==
  /\ wildTimeout # <<>>
  /\ Commit(wildCallback(gameState, wildTimeout[1]), timer, aiThinkingTime)
  /\ wildTimeout' = <<>>
  /\ lastOp' = Op("wildTimeout", FALSE, NoCard)
  /\ UNCHANGED <<selectedDifficulty, draws>>

Next ==
  \/ SelectDifficulty
  \/ StartGame
  \/ Restart
  \/ PlayAgain
  \/ ReturnToMenu
  \/ Surrender
  \/ ClickCard
  \/ ClickDeck
  \/ ClickSuit
  \/ Tick
  \/ TimerFires
  \/ WildTimeoutFires

Spec == Init /\ [][Next]_vars

\* ------------------------------------------------------- scripted games

\* games of the second specification
NumScenarios == 2

\* The runs of Math.random of two shuffles. After the first the human, who
\* plays the first playable card and draws when there is none, and the MEDIUM
\* computer draw the deck empty; after the second the HARD computer comes to
\* hold 3 of hearts, 3 of diamonds, 7 of diamonds, 8 of clubs under 3 of spades.
ScenarioRuns ==
  << <<1, 0, 2, 2, 3, 6, 3, 5, 3, 10, 10, 6, 13, 4, 3, 5, 0, 15, 16, 6, 19,
       17, 15, 24, 11, 5, 11, 28, 17, 17, 22, 6, 20, 24, 25, 19, 16, 1, 27,
       34, 22, 18, 1, 34, 38, 30, 23, 20, 10, 5, 46>>,
     <<1, 0, 1, 3, 4, 3, 6, 2, 3, 3, 5, 9, 8, 7, 10, 11, 0, 1, 3, 4, 5, 6,
       7, 8, 9, 10, 11, 13, 14, 16, 17, 18, 21, 22, 23, 24, 25, 26, 27, 28,
       29, 30, 31, 32, 35, 36, 37, 38, 45, 46, 47>> >>

ScenarioRun(n) == ScenarioRuns[((n - 1) % Len(ScenarioRuns)) + 1]

\* start screen: onClick={() => initGame(selectedDifficulty)}, with a shuffle
\* of ScenarioRuns
StartScenario ==
  /\ gameState.status = "START"
  /\ \E n \in 1..NumScenarios :
       Commit(initGame(selectedDifficulty, ScenarioRun(n)), timer, 0)
  /\ lastOp' = Op("startGame", TRUE, NoCard)
  /\ draws' = 0
  /\ UNCHANGED <<selectedDifficulty, wildTimeout>>

\* deck: onClick={() => gameState.currentTurn === 'PLAYER' && drawCard(true)},
\* clicked by a human who draws only when no card of the hand is playable
ClickDeckWhenStuck ==
  /\ gameState.status # "START"
  /\ gameState.currentTurn = PLAYER
  /\ \A i \in 1..Len(gameState.playerHand) :
       ~checkPlayable(gameState, gameState.playerHand[i])
  /\ Commit(drawCard(gameState, gameState, TRUE), timer, aiThinkingTime)
  /\ lastOp' = Op("drawCard", TRUE, DrawnCard(gameState))
  /\ UNCHANGED <<selectedDifficulty, wildTimeout, draws>>

\* One game, played to its end without restart or surrender
ScenarioNext ==
  \/ SelectDifficulty
  \/ StartScenario
  \/ ClickCard
  \/ ClickDeckWhenStuck
  \/ ClickSuit
  \/ Tick
  \/ TimerFires
  \/ WildTimeoutFires

ScenarioSpec == Init /\ [][ScenarioNext]_vars


\* ----------------------------------------------------------- properties

\* a game has been started at least once
Started == gameState # InitialGameState

NewGameOps == {"startGame", "restart", "playAgain"}

ActorHand(gs, isPlayer) == IF isPlayer THEN gs.playerHand ELSE gs.aiHand

CardCount(gs) ==
  Len(gs.deck) + Len(gs.playerHand) + Len(gs.aiHand) + Len(gs.discardPile)

\* the fields of Game State other than difficulty
Fields(gs) ==
  <<gs.deck, gs.playerHand, gs.aiHand, gs.discardPile, gs.currentTurn,
    gs.activeSuit, gs.winner, gs.status>>

\* C1: from the first startGame on, the deck, the two hands and the discard
\* pile hold 52 cards together.
C1_CardCount == Started => CardCount(gameState) = 52

\* C1 witness: the computer has drawn a card in a game already under way
C1_Witness ==
  /\ lastOp.op = "drawCard"
  /\ ~lastOp.isPlayer
  /\ Len(gameState.aiHand) > HandSize
  /\ Len(gameState.discardPile) > 2

\* C2: status is GAME_OVER exactly when there is a winner.
C2_WinnerIffGameOver ==
  (gameState.status = "GAME_OVER") <=> (gameState.winner # null)

\* C3: once a game has been started, activeSuit is one of the four suits.
C3_ActiveSuitValid == Started => gameState.activeSuit \in SuitSet

\* The state the computer's EIGHT leaves behind until its suit is declared
AwaitingWildSuit(gs) ==
  gs.status = "PLAYING" /\ gs.currentTurn = AI /\ gs.activeSuit = null

\* C4: a deferred computer action fires only in the situation that scheduled
\* it: the wild-suit declaration while the computer's EIGHT still awaits its
\* suit, the computer's move while it is the computer's turn in the state its
\* closure captured; never after a reset, the end of the game or a change of
\* turn.
C4_NoStaleDeferredAction ==
  [][/\ (wildTimeout # <<>> /\ wildTimeout' = <<>>) => AwaitingWildSuit(gameState)
     /\ (timer # <<>> /\ gameState' # gameState /\ ~lastOp'.isPlayer
           /\ lastOp'.op \in {"playCard", "drawCard"})
          => AiTurn(gameState) /\ timer[1] = gameState]_vars

\* The browser runs a timer callback once its delay has elapsed: a pending
\* tick, computer move or wild-suit declaration is not postponed for ever. The
\* human is under no obligation to click anything.
FairSpec ==
  Spec /\ WF_vars(Tick) /\ WF_vars(TimerFires) /\ WF_vars(WildTimeoutFires)

\* C5: whenever status is PLAYING and it is the computer's turn, the computer
\* eventually moves, and moves again after a draw that kept the turn, unless
\* the human resets or surrenders first. Every such chain of moves ends with a
\* play or with a draw that passes the turn, so the computer's turn in PLAYING
\* always comes to an end.
C5_ComputerEventuallyMoves == AiTurn(gameState) ~> ~AiTurn(gameState)

\* C6: once status is GAME_OVER, playCard, drawCard, selectWildSuit and the
\* deferred computer actions change no field of Game State.
C6_GameOverImmutable ==
  [][(/\ gameState.status = "GAME_OVER"
      /\ lastOp'.op \in {"playCard", "drawCard", "selectWildSuit", "wildTimeout"})
     => Fields(gameState') = Fields(gameState)]_vars

\* C7: right after a game is started, from any state: 8 cards in each hand,
\* one discard that is not an EIGHT, 35 cards in the deck, activeSuit the suit
\* of the discard, the human to move, PLAYING, no winner.
C7_FreshDeal ==
  lastOp.op \in NewGameOps =>
    /\ Len(gameState.playerHand) = 8
    /\ Len(gameState.aiHand) = 8
    /\ Len(gameState.discardPile) = 1
    /\ gameState.discardPile[1].rank # EIGHT
    /\ Len(gameState.deck) = 35
    /\ gameState.activeSuit = gameState.discardPile[1].suit
    /\ gameState.currentTurn = PLAYER
    /\ gameState.status = "PLAYING"
    /\ gameState.winner = null

\* C7 witness: a restart whose shuffle put an EIGHT where the discard is looked
\* for (the EIGHT stays on the deck)
C7_Witness == lastOp.op = "restart" /\ gameState.deck[1].rank = EIGHT

\* C8: an EIGHT is playable; any other card is playable exactly when its suit
\* is activeSuit or its rank is the rank of the top discard.
C8_IsPlayable ==
  gameState.discardPile # <<>> =>
    LET topCard == gameState.discardPile[Len(gameState.discardPile)] IN
    \A card \in Cards :
      /\ card.rank = EIGHT => checkPlayable(gameState, card)
      /\ card.rank # EIGHT =>
           (checkPlayable(gameState, card)
              <=> (card.suit = gameState.activeSuit \/ card.rank = topCard.rank))

\* C8 witness: the human could click a card that matches the top discard by
\* rank only, an EIGHT is at hand too
C8_Witness ==
  /\ gameState.status = "PLAYING"
  /\ gameState.currentTurn = PLAYER
  /\ \E i, j \in 1..Len(gameState.playerHand) :
       LET card == gameState.playerHand[i]
           topCard == gameState.discardPile[Len(gameState.discardPile)]
       IN /\ card.rank # EIGHT
          /\ card.suit # gameState.activeSuit
          /\ card.rank = topCard.rank
          /\ checkPlayable(gameState, card)
          /\ gameState.playerHand[j].rank = EIGHT

\* C9 as stated: after playCard of a card that is not an EIGHT, activeSuit is
\* the suit of the card and the turn is the other actor's.
C9_OrdinaryPlay ==
  (lastOp.op = "playCard" /\ lastOp.card.rank # EIGHT) =>
    /\ gameState.activeSuit = lastOp.card.suit
    /\ gameState.currentTurn = Other(lastOp.isPlayer)

\* C9 amended: after playCard of a card that is not an EIGHT and is not the
\* actor's last card, activeSuit is the suit of the card and the turn is the
\* other actor's.
C9_OrdinaryPlayNotLast ==
  (/\ lastOp.op = "playCard"
   /\ lastOp.card.rank # EIGHT
   /\ ActorHand(gameState, lastOp.isPlayer) # <<>>) =>
    /\ gameState.activeSuit = lastOp.card.suit
    /\ gameState.currentTurn = Other(lastOp.isPlayer)

\* C9 witness: the computer has played an ordinary card on a suit it changed
C9_Witness ==
  /\ lastOp.op = "playCard"
  /\ ~lastOp.isPlayer
  /\ lastOp.card.rank # EIGHT
  /\ gameState.aiHand # <<>>
  /\ gameState.discardPile[Len(gameState.discardPile) - 1].suit # lastOp.card.suit

\* C10: playCard of the actor's last card, EIGHT or not, ends the game in the
\* same step: GAME_OVER, the actor wins, the card is on the discard pile, the
\* hand is empty, and neither the turn nor activeSuit changes.
C10_LastCardWins ==
  [][(/\ lastOp'.op = "playCard"
      /\ gameState' # gameState
      /\ ActorHand(gameState, lastOp'.isPlayer) = <<lastOp'.card>>)
     => /\ gameState'.status = "GAME_OVER"
        /\ gameState'.winner = (IF lastOp'.isPlayer THEN PLAYER ELSE AI)
        /\ gameState'.discardPile = Append(gameState.discardPile, lastOp'.card)
        /\ ActorHand(gameState', lastOp'.isPlayer) = <<>>
        /\ ActorHand(gameState', ~lastOp'.isPlayer)
             = ActorHand(gameState, ~lastOp'.isPlayer)
        /\ gameState'.deck = gameState.deck
        /\ gameState'.currentTurn = gameState.currentTurn
        /\ gameState'.activeSuit = gameState.activeSuit]_vars

\* C10 witness: a game won by playing an EIGHT as the last card
C10_Witness ==
  /\ lastOp.op = "playCard"
  /\ lastOp.card.rank = EIGHT
  /\ gameState.status = "GAME_OVER"
  /\ ActorHand(gameState, lastOp.isPlayer) = <<>>

\* A step in which the actor's playCard or drawCard changed Game State
Moved(isPlayer, op) ==
  /\ gameState' # gameState
  /\ lastOp'.op = op
  /\ lastOp'.isPlayer = isPlayer

\* C11: when the human plays an EIGHT that is not their last card, the card
\* goes from playerHand to the top of discardPile, status becomes
\* WILD_SELECTION, activeSuit and currentTurn (and the deck and the computer's
\* hand) stay as they were; no computer move is pending then, and none happens
\* while status is WILD_SELECTION.
C11_HumanEight ==
  [][/\ (/\ Moved(TRUE, "playCard")
         /\ lastOp'.card.rank = EIGHT
         /\ Len(gameState.playerHand) > 1)
        => /\ \E i \in 1..Len(gameState.playerHand) :
                /\ gameState.playerHand[i] = lastOp'.card
                /\ gameState'.playerHand = RemoveAt(gameState.playerHand, i - 1)
           /\ gameState'.discardPile = Append(gameState.discardPile, lastOp'.card)
           /\ gameState'.status = "WILD_SELECTION"
           /\ gameState'.activeSuit = gameState.activeSuit
           /\ gameState'.currentTurn = gameState.currentTurn
           /\ gameState'.deck = gameState.deck
           /\ gameState'.aiHand = gameState.aiHand
           /\ gameState'.winner = gameState.winner
           /\ timer' = <<>>
     /\ gameState.status = "WILD_SELECTION"
        => ~(Moved(FALSE, "playCard") \/ Moved(FALSE, "drawCard"))]_vars

\* C11 witness: the human's EIGHT lies on a card of another suit, the suit is
\* not chosen yet
C11_Witness ==
  /\ gameState.status = "WILD_SELECTION"
  /\ lastOp = Op("playCard", TRUE, gameState.discardPile[Len(gameState.discardPile)])
  /\ lastOp.card.rank = EIGHT
  /\ gameState.activeSuit # lastOp.card.suit
  /\ gameState.playerHand # <<>>

\* C12: selectWildSuit(suit) in WILD_SELECTION sets activeSuit to suit, status
\* to PLAYING and currentTurn to AI, and leaves deck, hands, discard pile,
\* winner and difficulty as they were; each of the four suits can be chosen.
C12_SelectWildSuit ==
  [][(gameState.status = "WILD_SELECTION" /\ lastOp'.op = "selectWildSuit")
     => /\ \E suit \in SuitSet :
             gameState' = [gameState EXCEPT !.activeSuit = suit,
                                            !.status = "PLAYING",
                                            !.currentTurn = AI]
        /\ \A suit \in SuitSet :
             LET new == selectWildSuit(gameState, suit)
             IN /\ new.activeSuit = suit
                /\ new.status = "PLAYING"
                /\ new.currentTurn = AI
                /\ <<new.deck, new.playerHand, new.aiHand, new.discardPile,
                     new.winner, new.difficulty>>
                   = <<gameState.deck, gameState.playerHand, gameState.aiHand,
                       gameState.discardPile, gameState.winner,
                       gameState.difficulty>>]_vars

\* C12 witness: the human has declared a suit other than the suit of the EIGHT
C12_Witness ==
  /\ lastOp.op = "selectWildSuit"
  /\ gameState.status = "PLAYING"
  /\ gameState.currentTurn = AI
  /\ gameState.discardPile[Len(gameState.discardPile)].rank = EIGHT
  /\ gameState.activeSuit # gameState.discardPile[Len(gameState.discardPile)].suit

\* number of cards of suit s in hand
CountOf(hand, s) == Cardinality({i \in 1..Len(hand) : hand[i].suit = s})

\* s has the highest count in hand, and is the first suit of SUITS that has it
HighestCountFirst(hand, s) ==
  \E k \in 1..Len(SUITS) :
    /\ SUITS[k] = s
    /\ \A j \in 1..Len(SUITS) : CountOf(hand, SUITS[j]) <= CountOf(hand, s)
    /\ \A j \in 1..(k - 1) : CountOf(hand, SUITS[j]) < CountOf(hand, s)

\* C13: when the computer has played an EIGHT that is not its last card, the
\* suit then declared is the suit with the highest count in the computer's
\* remaining hand, the first such suit in the order HEARTS, DIAMONDS, CLUBS,
\* SPADES, and the turn passes to PLAYER in status PLAYING.
C13_ComputerWildSuit ==
  [][(/\ wildTimeout # <<>>
      /\ wildTimeout' = <<>>
      /\ lastOp.op = "playCard"
      /\ ~lastOp.isPlayer
      /\ lastOp.card.rank = EIGHT)
     => /\ HighestCountFirst(gameState.aiHand, gameState'.activeSuit)
        /\ gameState'.currentTurn = PLAYER
        /\ gameState'.status = "PLAYING"]_vars

\* C13 witness: the suit declared for the computer's EIGHT is not HEARTS and
\* another suit has as many cards in the computer's hand
C13_Witness ==
  /\ lastOp.op = "wildTimeout"
  /\ gameState.status = "PLAYING"
  /\ gameState.currentTurn = PLAYER
  /\ gameState.discardPile[Len(gameState.discardPile)].rank = EIGHT
  /\ gameState.activeSuit # SUITS[1]
  /\ HighestCountFirst(gameState.aiHand, gameState.activeSuit)
  /\ \E t \in SuitSet \ {gameState.activeSuit} :
       CountOf(gameState.aiHand, t) = CountOf(gameState.aiHand, gameState.activeSuit)

\* A step of the interval, which leaves lastOp as it was
TickStep == aiThinkingTime' = aiThinkingTime + 1

\* A step in which drawCard ran for the actor
DrawStep(isPlayer) ==
  /\ ~TickStep
  /\ lastOp' = Op("drawCard", isPlayer, DrawnCard(gameState))

\* C14: drawCard on an empty deck, by either actor, draws nothing: deck, hands,
\* discard pile and activeSuit (and status and winner) are as before, and
\* currentTurn is the other actor's, whatever the hand holds.
C14_EmptyDeckDraw ==
  [][\A isPlayer \in BOOLEAN :
       (DrawStep(isPlayer) /\ Len(gameState.deck) = 0)
       => /\ gameState' = [gameState EXCEPT !.currentTurn = Other(isPlayer)]
          /\ gameState'.currentTurn # gameState.currentTurn]_vars

\* C14 witness: the computer's draw found the deck empty and passed the turn
\* to the human, who has no playable card either
C14_Witness ==
  /\ lastOp = Op("drawCard", FALSE, NoCard)
  /\ Len(gameState.deck) = 0
  /\ gameState.status = "PLAYING"
  /\ gameState.currentTurn = PLAYER
  /\ CardCount(gameState) = 52
  /\ \A i \in 1..Len(gameState.playerHand) :
       ~checkPlayable(gameState, gameState.playerHand[i])

\* C15: drawCard on a deck that is not empty removes the last card of the
\* deck and appends it to the actor's hand; the other hand and the discard
\* pile (and activeSuit, status, winner) are as before; the turn stays with the
\* actor exactly when the card drawn is an EIGHT, of the active suit or of the
\* rank of the top discard, and passes to the other actor otherwise.
C15_DrawFromDeck ==
  [][\A isPlayer \in BOOLEAN :
       (DrawStep(isPlayer) /\ Len(gameState.deck) > 0)
       => LET drawnCard == gameState.deck[Len(gameState.deck)]
              topCard == gameState.discardPile[Len(gameState.discardPile)]
              fits == \/ drawnCard.rank = EIGHT
                      \/ drawnCard.suit = gameState.activeSuit
                      \/ drawnCard.rank = topCard.rank
          IN /\ gameState'.deck = SubSeq(gameState.deck, 1, Len(gameState.deck) - 1)
             /\ ActorHand(gameState', isPlayer)
                  = Append(ActorHand(gameState, isPlayer), drawnCard)
             /\ ActorHand(gameState', ~isPlayer) = ActorHand(gameState, ~isPlayer)
             /\ gameState'.discardPile = gameState.discardPile
             /\ gameState'.activeSuit = gameState.activeSuit
             /\ gameState'.status = gameState.status
             /\ gameState'.winner = gameState.winner
             /\ gameState'.currentTurn
                  = IF fits THEN (IF isPlayer THEN PLAYER ELSE AI)
                    ELSE Other(isPlayer)]_vars

\* C15 witness: the computer drew a card it can play and kept the turn
C15_Witness ==
  /\ lastOp.op = "drawCard"
  /\ ~lastOp.isPlayer
  /\ lastOp.card # NoCard
  /\ gameState.aiHand[Len(gameState.aiHand)] = lastOp.card
  /\ checkPlayable(gameState, lastOp.card)
  /\ gameState.currentTurn = AI
  /\ gameState.status = "PLAYING"

\* The rule of play, written out: card may go on the top discard of gs
Fits(gs, card) ==
  \/ card.rank = EIGHT
  \/ card.suit = gs.activeSuit
  \/ card.rank = gs.discardPile[Len(gs.discardPile)].rank

\* the places of the cards of hand that may be played in gs
FitPlaces(gs, hand) == {i \in 1..Len(hand) : Fits(gs, hand[i])}

Least(places) == CHOOSE i \in places : \A j \in places : i <= j

C17_StatusTransitions ==
  [][(gameState'.status # gameState.status /\ lastOp'.op \notin NewGameOps)
     => \/ /\ gameState.status = "PLAYING"
           /\ gameState'.status = "WILD_SELECTION"
           /\ lastOp'.op = "playCard"
           /\ lastOp'.isPlayer
           /\ lastOp'.card.rank = EIGHT
        \/ /\ gameState.status = "WILD_SELECTION"
           /\ gameState'.status = "PLAYING"
           /\ lastOp'.op = "selectWildSuit"
        \/ /\ gameState.status = "PLAYING"
           /\ gameState'.status = "GAME_OVER"]_vars

\* C18: on every difficulty, a move of the computer is the play of a card of
\* its hand that may be played on the top discard, or a draw; it is a draw
\* exactly when no card of its hand may be played.
C18_ComputerMoveLegal ==
  [][/\ Moved(FALSE, "playCard")
          => /\ \E i \in FitPlaces(gameState, gameState.aiHand) :
                  gameState.aiHand[i] = lastOp'.card
             /\ AiTurn(gameState)
     /\ DrawStep(FALSE)
          => /\ FitPlaces(gameState, gameState.aiHand) = {}
             /\ AiTurn(gameState)]_vars

\* C18 witness: the EASY computer has played a card that is not the first
\* playable card its hand held
C18_Witness ==
  /\ lastOp.op = "playCard"
  /\ ~lastOp.isPlayer
  /\ gameState.difficulty = "EASY"
  /\ Len(gameState.discardPile) > 1
  /\ LET prevTop == gameState.discardPile[Len(gameState.discardPile) - 1]
     IN /\ prevTop.rank # EIGHT
        /\ gameState.aiHand # <<>>
        /\ gameState.aiHand[1].suit = prevTop.suit
        /\ lastOp.card.rank = EIGHT

\* C19: the MEDIUM computer plays the first card of its hand that may be
\* played and is no EIGHT; when there is none, the first card that may be
\* played (an EIGHT).
C19_MediumPolicy ==
  [][(Moved(FALSE, "playCard") /\ gameState.difficulty = "MEDIUM")
     => LET hand == gameState.aiHand
            places == FitPlaces(gameState, hand)
            plain == {i \in places : hand[i].rank # EIGHT}
        IN /\ places # {}
           /\ lastOp'.card = hand[Least(IF plain # {} THEN plain ELSE places)]
           /\ plain # {} => lastOp'.card.rank # EIGHT]_vars

\* C19 witness: the MEDIUM computer, holding an EIGHT, has played a card that
\* is no EIGHT
C19_Witness ==
  /\ lastOp.op = "playCard"
  /\ ~lastOp.isPlayer
  /\ gameState.difficulty = "MEDIUM"
  /\ lastOp.card.rank # EIGHT
  /\ \E i \in 1..Len(gameState.aiHand) : gameState.aiHand[i].rank = EIGHT

\* The hand of the example: 3 of hearts, 3 of diamonds, 7 of diamonds, 8 of clubs
ExampleHand ==
  <<Card("HEARTS", "3"), Card("DIAMONDS", "3"), Card("DIAMONDS", "7"),
    Card("CLUBS", EIGHT)>>

\* The HARD computer holds the hand of the example, and all of it but the 7 of
\* diamonds may be played
ExampleCase ==
  /\ gameState.difficulty = "HARD"
  /\ gameState.aiHand = ExampleHand
  /\ FitPlaces(gameState, gameState.aiHand) = {1, 2, 4}

\* The rule of the HARD computer: of the cards that may be played and are no
\* EIGHT, the first in hand order among those whose suit has the highest count
\* in the whole hand; when there is none, the first card that may be played
HardRule ==
  LET hand == gameState.aiHand
      places == FitPlaces(gameState, hand)
      plain == {i \in places : hand[i].rank # EIGHT}
      most == {i \in plain :
                 \A j \in plain : CountOf(hand, hand[j].suit) <= CountOf(hand, hand[i].suit)}
  IN /\ places # {}
     /\ lastOp'.card = hand[Least(IF plain # {} THEN most ELSE places)]

\* C20 as stated: the HARD computer plays by HardRule, and from the hand of
\* the example it plays the 3 of hearts.
C20_HardPolicy ==
  [][(Moved(FALSE, "playCard") /\ gameState.difficulty = "HARD")
     => /\ HardRule
        /\ ExampleCase => lastOp'.card = Card("HEARTS", "3")]_vars

\* C20 amended: the HARD computer plays by HardRule, and from the hand of the
\* example it plays the 3 of diamonds: diamonds count two in that hand, hearts
\* one.
C20_HardPolicyDiamonds ==
  [][(Moved(FALSE, "playCard") /\ gameState.difficulty = "HARD")
     => /\ HardRule
        /\ ExampleCase => lastOp'.card = Card("DIAMONDS", "3")]_vars

\* C20 witness: the HARD computer has made its move from the hand of the
\* example, on the human's 3 of spades
C20_Witness ==
  /\ gameState.difficulty = "HARD"
  /\ lastOp.op = "playCard"
  /\ ~lastOp.isPlayer
  /\ Len(gameState.discardPile) > 1
  /\ gameState.discardPile[Len(gameState.discardPile) - 1] = Card("SPADES", "3")
  /\ gameState.discardPile[Len(gameState.discardPile)] = lastOp.card
  /\ \E i \in 1..Len(ExampleHand) :
       /\ ExampleHand[i] = lastOp.card
       /\ gameState.aiHand = RemoveAt(ExampleHand, i - 1)

\* further shuffles the deck is built with: a sample of runs of Math.random
MaxSeed == 3

\* The run of the sample numbered k: at index i the value (k * i) mod (i + 1),
\* one of the values 0 .. i that Math.floor(Math.random() * (i + 1)) takes
SampleRun(k) == [i \in 1..(Len(OrderedDeck) - 1) |-> (k * i) % (i + 1)]

\* cards is a full deck: 52 cards, every (suit, rank) pair at exactly one
\* place, hence 13 cards of each suit and 4 of each rank
FullDeck(cards) ==
  /\ Len(cards) = 52
  /\ \A card \in Cards :
       Cardinality({i \in 1..Len(cards) : cards[i] = card}) = 1
  /\ \A s \in SuitSet :
       Cardinality({i \in 1..Len(cards) : cards[i].suit = s}) = 13
  /\ \A r \in RankSet :
       Cardinality({i \in 1..Len(cards) : cards[i].rank = r}) = 4

AllCards(gs) == gs.deck \o gs.playerHand \o gs.aiHand \o gs.discardPile

\* C21: in a started game the deck, the hands and the discard pile hold each
\* of the 52 (suit, rank) pairs exactly once; and createDeck yields a full
\* deck (13 per suit, 4 per rank, no pair twice) for the shuffles of the games
\* and of the sample.
C21_EachCardOnce ==
  IF Started
  THEN FullDeck(AllCards(gameState))
  ELSE /\ \A k \in 0..MaxSeed : FullDeck(createDeck(SampleRun(k)))
       /\ \A n \in 1..NumRuns : FullDeck(createDeck(RandomRun(n)))

\* C21 witness: a game in which cards have left the deck for a hand and both
\* actors have played
C21_Witness ==
  /\ gameState.status = "PLAYING"
  /\ lastOp.op = "playCard"
  /\ Len(gameState.deck) <= 33
  /\ Len(gameState.discardPile) >= 4
  /\ Len(gameState.playerHand) # Len(gameState.aiHand)

\* C22: surrender sets status to GAME_OVER and winner to AI and leaves deck,
\* hands, discard pile, currentTurn, activeSuit and difficulty as they were;
\* it runs only from status PLAYING, and after it no computer move is pending.
C22_Surrender ==
  [][(lastOp'.op = "surrender" /\ ~TickStep /\ lastOp' # lastOp)
     => /\ gameState.status = "PLAYING"
        /\ gameState' = [gameState EXCEPT !.status = "GAME_OVER", !.winner = AI]
        /\ gameState'.deck = gameState.deck
        /\ gameState'.playerHand = gameState.playerHand
        /\ gameState'.aiHand = gameState.aiHand
        /\ gameState'.discardPile = gameState.discardPile
        /\ gameState'.currentTurn = gameState.currentTurn
        /\ gameState'.activeSuit = gameState.activeSuit
        /\ gameState'.difficulty = gameState.difficulty
        /\ timer' = <<>>]_vars

\* C22 witness: the human has surrendered while the computer was about to
\* move
C22_Witness ==
  /\ lastOp.op = "surrender"
  /\ gameState.status = "GAME_OVER"
  /\ gameState.winner = AI
  /\ gameState.currentTurn = AI
  /\ gameState.activeSuit \in SuitSet
  /\ timer = <<>>
  /\ aiThinkingTime = 0

\* Fair scheduling of the moves of one game: the timers fire when they are
\* due, and the human does not for ever leave a move undone that stays open
\* to them.
FairScenarioSpec ==
  /\ ScenarioSpec
  /\ WF_vars(Tick) /\ WF_vars(TimerFires) /\ WF_vars(WildTimeoutFires)
  /\ WF_vars(ClickCard) /\ WF_vars(ClickDeckWhenStuck) /\ WF_vars(ClickSuit)

\* C23: under fair scheduling of the human's and the computer's moves, every
\* game that is being played eventually reaches GAME_OVER.
C23_GameEnds ==
  (gameState.status = "PLAYING") ~> (gameState.status = "GAME_OVER")

\* C24: difficulty is EASY, MEDIUM or HARD in every state, whatever was
\* clicked: the start button, the restart button of the header, 'play again'.
C24_DifficultyValid == gameState.difficulty \in Difficulty

====
